---------------------------- MODULE Spec2Model ----------------------------
(***************************************************************************)
(* Token activation of ethers-helpers (src/client/tokens.ts, first draft   *)
(* of the file, lines 1-218, with the pure helpers of src/lib/tokens.ts).  *)
(*                                                                         *)
(* getClientTokens(signer, networks, customPriceCalculation) resolves the  *)
(* signer's chain id, looks the network up, constructs one ClientToken per *)
(* token descriptor and initializes them in parallel.  JavaScript runs     *)
(* every callback to completion, so one action below is one callback: the  *)
(* code from the settlement of one external promise (an RPC reply, the     *)
(* caller's price function) to the next suspension, with every microtask   *)
(* it triggers (then-callbacks, Promise.all, the return of an async        *)
(* function).                                                              *)
(***************************************************************************)
EXTENDS Integers, Sequences, FiniteSets, TLC

----------------------------------------------------------------------------
(* Bounds of the model *)

\* update() calls the caller makes on one returned handle (SpecUpdate)
MaxUpdates == 2
\* transfer() calls the caller makes (SpecTransfer)
MaxTransfers == 1
\* amounts handed to transfer() are the decimal literals n / 10^k,
\* 1 <= n <= MaxAmountDigits, 0 <= k <= MaxAmountScale
MaxAmountDigits == 25
MaxAmountScale == 1

----------------------------------------------------------------------------
(* Values *)

Undefined == "undefined"
None == << >>
Some(v) == << v >>

\* IEEE 754 binary64: bits of the significand
MantissaBits == 53
\* fixed oracle scale of getPriceViaOracle
ORACLE_DECIMALS == 8

\* What the chain may answer: decimals() of an ERC-20, balanceOf(), and the
\* answer of latestRoundData(); what the caller's price function may return.
DecimalsOnChain == {6, 18}
BalancesOnChain == {1500000}
OracleAnswers == {123456789, 99990000}
CustomPrices == {100}
ToAddresses == {"0xto"}

----------------------------------------------------------------------------
(* The registry *)

BUSD == [symbol |-> "BUSD", address |-> "0xe9e7", oracleAddress |-> "0xcBb9"]
WBNB == [symbol |-> "WBNB", address |-> "0xbb4C", oracleAddress |-> "0x0567"]
ETH == [symbol |-> "ETH", address |-> "0x2170", oracleAddress |-> "0x9ef1"]
USDC_BSC == [symbol |-> "USDC", address |-> "0x8AC7", oracleAddress |-> "0x5159"]
USDC_AVAX == [symbol |-> "USDC", address |-> "0xB97E", oracleAddress |-> "0xF096"]
WAVAX == [symbol |-> "WAVAX", address |-> "0xB31f", oracleAddress |-> "0x0A77"]
MIM == [symbol |-> "MIM", address |-> "0x1309", oracleAddress |-> Undefined]

\* const NETWORKS of src/client/tokens.ts
NETWORKS ==
    (56 :> [name |-> "Binance Smart Chain", tokens |-> <<BUSD, WBNB, ETH, USDC_BSC>>])
    @@ (43114 :> [name |-> "Avalanche C-Chain", tokens |-> <<USDC_AVAX, WAVAX, MIM>>])

\* const network of src/client/networks.ts, and a one-token network around MIM,
\* as a registry: the registry of the runs in which the caller goes on to use
\* the returned handle
SINGLE_TOKEN_NETWORKS ==
    (56 :> [name |-> "Binance Smart Chain", tokens |-> <<BUSD>>])
    @@ (43114 :> [name |-> "Avalanche C-Chain", tokens |-> <<MIM>>])

\* chain ids a signer's provider may resolve to: 1 is in no registry
ProviderChainIds == {1, 56, 43114}

----------------------------------------------------------------------------
VARIABLES
    networks,               \* argument: the registry
    provider,               \* argument: signer.provider is set
    providerChainId,        \* the chain the signer's provider is connected to
    erc20Decimals,          \* the chain: what the token contracts' decimals() returns
    customPriceCalculation, \* argument: "function" or Undefined
    pc,                     \* position of getClientTokens
    error,                  \* the error getClientTokens rejected with
    chainId,                \* const chainId (line 116), None until resolved
    clientTokens,           \* the ClientToken objects, in tokens.map order
    calls,                  \* calls[i]: the update() calls on clientTokens[i]
    reads,                  \* reads[i]: requests clientTokens[i] has issued
    customArgs,             \* customArgs[i]: arguments customPriceCalculation got
    requests,               \* requests getClientTokens itself has issued
    result,                 \* what getClientTokens resolved with
    transfers               \* the transfer() calls of the caller

vars == <<networks, provider, providerChainId, erc20Decimals,
          customPriceCalculation, pc, error,
          chainId, clientTokens, calls, reads, customArgs, requests, result,
          transfers>>

args == <<networks, provider, providerChainId, erc20Decimals, customPriceCalculation>>


----------------------------------------------------------------------------
(* src/lib/tokens.ts: the pure parts.  A JavaScript number that is the     *)
(* quotient raw / 10^e is written [n |-> raw, e |-> e]; raw stays below    *)
(* 2^53 here, so Number(raw) is exact and the division rounds once.        *)

\* getBalance: Number(balance) / 10 ** decimals
getBalance(raw, decimals) == [n |-> raw, e |-> decimals]

\* getPriceViaOracle: Number(latestRound.answer) / 10 ** 8
getPriceViaOracle(answer) == [n |-> answer, e |-> ORACLE_DECIMALS]

\* a number the caller's price function returned
customPrice(v) == [n |-> v, e |-> 0]

----------------------------------------------------------------------------
(* JavaScript numbers (IEEE 754 binary64) where the arithmetic rounds: the   *)
(* product of transfer().  A natural number of any size is the sequence of   *)
(* its bits, most significant first, without leading zeros; a number is      *)
(* [m |-> bits, x |-> exponent], the value m * 2^x, with at most             *)
(* MantissaBits bits.  The values here are far from the exponent range's     *)
(* ends, so there are no subnormals and no infinities.                       *)

\* bits are handled in limbs of LimbBits bits, so that the recursions stay shallow
LimbBits == 10
Limb == 2 ^ LimbBits

\* the w low bits of a small v
Padded(v, w) == [j \in 1 .. w |-> (v \div (2 ^ (w - j))) % 2]

Zeros(k) == [j \in 1 .. k |-> 0]

\* without the leading zeros
Strip(b) ==
    LET ones == {j \in 1 .. Len(b) : b[j] = 1}
    IN IF ones = {} THEN << >>
       ELSE SubSeq(b, CHOOSE j \in ones : \A q \in ones : j <= q, Len(b))

\* the bits of a small number
Bits(n) == Strip(Padded(n, 30))

\* the number a sequence of at most LimbBits bits denotes
ToInt(b) ==
    LET p == Zeros(LimbBits - Len(b)) \o b
    IN 512 * p[1] + 256 * p[2] + 128 * p[3] + 64 * p[4] + 32 * p[5]
       + 16 * p[6] + 8 * p[7] + 4 * p[8] + 2 * p[9] + p[10]

Front(b) == SubSeq(b, 1, Len(b) - 1)
Last(b) == b[Len(b)]
HighLimbs(b) == SubSeq(b, 1, Len(b) - LimbBits)
LowLimb(b) == ToInt(SubSeq(b, Len(b) - LimbBits + 1, Len(b)))

\* b * c + carry, for a small c (with leading zeros)
RECURSIVE MulCarry(_, _, _)
MulCarry(b, c, carry) ==
    IF Len(b) <= LimbBits THEN Padded(ToInt(b) * c + carry, 30)
    ELSE LET t == LowLimb(b) * c + carry
         IN MulCarry(HighLimbs(b), c, t \div Limb) \o Padded(t % Limb, LimbBits)

MulSmall(b, c) == Strip(MulCarry(b, c, 0))

Pow10(k) == 10 ^ k

\* b * 10^d, six decimal digits at a time
RECURSIVE TimesPow10(_, _)
TimesPow10(b, d) ==
    IF d <= 6 THEN MulSmall(b, Pow10(d)) ELSE TimesPow10(MulSmall(b, Pow10(6)), d - 6)

\* long division of b by a small d: [q |-> quotient (with leading zeros), r |-> rest]
RECURSIVE DivSmall(_, _)
DivSmall(b, d) ==
    IF Len(b) <= LimbBits
    THEN [q |-> Padded(ToInt(b) \div d, Len(b)), r |-> ToInt(b) % d]
    ELSE LET up == DivSmall(HighLimbs(b), d)
             t == up.r * Limb + LowLimb(b)
         IN [q |-> up.q \o Padded(t \div d, LimbBits), r |-> t % d]

\* b + 1
Increment(b) ==
    LET zeros == {j \in 1 .. Len(b) : b[j] = 0}
    IN IF zeros = {} THEN <<1>> \o Zeros(Len(b))
       ELSE LET p == CHOOSE j \in zeros : \A q \in zeros : q <= j
            IN [j \in 1 .. Len(b) |-> IF j < p THEN b[j] ELSE IF j = p THEN 1 ELSE 0]

\* round to nearest, ties to even: the number nearest to (b + f) * 2^x, where
\* 0 <= f < 1 and sticky says f > 0
RoundToNearestEven(b, x, sticky) ==
    IF Len(b) <= MantissaBits THEN [m |-> b, x |-> x]
    ELSE LET keep == SubSeq(b, 1, MantissaBits)
             rest == SubSeq(b, MantissaBits + 1, Len(b))
             below == sticky \/ \E j \in 2 .. Len(rest) : rest[j] = 1
             up == rest[1] = 1 /\ (below \/ Last(keep) = 1)
             m == IF up THEN Increment(keep) ELSE keep
             x2 == x + Len(rest)
         IN IF Len(m) > MantissaBits THEN [m |-> Front(m), x |-> x2 + 1]
            ELSE [m |-> m, x |-> x2]

\* the number a decimal literal n / 10^k (n > 0) denotes
\* (n is scaled by 2^GuardShift first, which leaves the quotient more than
\* MantissaBits bits)
GuardShift(k) == MantissaBits + 1 + Len(Bits(Pow10(k)))
NumberLiteral(n, k) ==
    IF k = 0 THEN [m |-> Bits(n), x |-> 0]
    ELSE LET d == DivSmall(Bits(n) \o Zeros(GuardShift(k)), Pow10(k))
         IN RoundToNearestEven(Strip(d.q), 0 - GuardShift(k), d.r # 0)

\* a * 10 ** decimals: 10 ** decimals is exact up to 10^22, the product
\* rounds once
TimesTenTo(a, decimals) == RoundToNearestEven(TimesPow10(a.m, decimals), a.x, FALSE)

\* whether the number a is the integer with the bits b
IsInteger(a, b) ==
    IF a.x >= 0 THEN Strip(a.m \o Zeros(a.x)) = b
    ELSE /\ Len(a.m) >= 0 - a.x
         /\ \A j \in (Len(a.m) + a.x + 1) .. Len(a.m) : a.m[j] = 0
         /\ Strip(SubSeq(a.m, 1, Len(a.m) + a.x)) = b

\* src/lib/tokens.ts, transfer, line 27: amount * 10 ** decimals
formattedAmount(amount, decimals) == TimesTenTo(amount, decimals)

----------------------------------------------------------------------------
(* class ClientToken *)

\* constructor: binds the token contract and, if the descriptor has an oracle
\* address, the oracle contract.  customPriceCalculation is optional and is
\* not looked at.
ClientToken(token) ==
    [token |-> token,
     oracleContract |-> token.oracleAddress,
     decimals |-> None,
     balance |-> None,
     price |-> None,
     balanceBy |-> 0,     \* history: the update() call that assigned balance
     priceBy |-> 0,       \* history: the update() call that assigned price
     answer |-> None,     \* history: the oracle answer price was computed from
     init |-> "decimals"] \* initialize(): "decimals", "updating", "ready", "failed"

\* (a getPrice that prefers the caller's price function whenever one is given)
PriceSourcePreferCustom(ct) ==
    IF customPriceCalculation # Undefined THEN "custom" ELSE "oracle"

\* getPrice: the branch taken
PriceSource(ct) == IF ct.oracleContract # Undefined THEN "oracle" ELSE "custom"

NoReads == [decimals |-> 0, balanceOf |-> 0, latestRoundData |-> 0, custom |-> 0]

\* getBalance() called: one balanceOf request
IssueBalance(r) == [r EXCEPT !.balanceOf = @ + 1]

\* getPrice() called: one latestRoundData request, or one call of
\* customPriceCalculation (none when it is undefined: the call throws)
IssuePrice(ct, r) ==
    IF PriceSource(ct) = "oracle" THEN [r EXCEPT !.latestRoundData = @ + 1]
    ELSE IF customPriceCalculation # Undefined THEN [r EXCEPT !.custom = @ + 1]
    ELSE r

\* the argument getPrice() hands to customPriceCalculation
CustomArgsOf(ct) == [chainId |-> chainId[1], token |-> ct.token]

IssueCustomArgs(ct, a) ==
    IF PriceSource(ct) = "custom" /\ customPriceCalculation # Undefined
    THEN a \cup {CustomArgsOf(ct)} ELSE a

\* update(), lines 73-74: both reads are started; getPrice() rejects at once
\* with a TypeError when there is neither an oracle nor a price function
NewCall(ct) ==
    [bal |-> "pending",
     price |-> IF PriceSource(ct) = "custom" /\ customPriceCalculation = Undefined
               THEN "fail" ELSE "pending"]

\* update(), lines 75-78: Promise.all over the two assignments
CallStatus(call) ==
    IF call.bal = "fail" \/ call.price = "fail" THEN "rejected"
    ELSE IF call.bal = "ok" /\ call.price = "ok" THEN "resolved"
    ELSE "pending"

\* (an initialize() that starts update() and does not await it)
InitOfNoAwait(call) ==
    IF CallStatus(call) = "rejected" THEN "failed" ELSE "ready"

\* initialize(), line 86: await this.update()
InitOf(call) ==
    CASE CallStatus(call) = "resolved" -> "ready"
      [] CallStatus(call) = "rejected" -> "failed"
      [] OTHER -> "updating"

----------------------------------------------------------------------------
(* getClientTokens *)

\* (a getClientTokens without the provider check)
HasProviderUnchecked == TRUE

\* line 115
HasProvider == provider

\* (a check of the chain id in place of the check of the registry entry)
NetworkSupportedTruthy(id) == id # 0

\* lines 119-120
NetworkSupported(id) == id \in DOMAIN networks

\* line 123: the tokens that are mapped to ClientTokenFactory.create
Mapped(tokens) == 1 .. Len(tokens)

\* (Promise.allSettled in place of Promise.all: waits for all, never rejects)
JoinAllSettled(cts) ==
    IF \A i \in DOMAIN cts : cts[i].init \in {"ready", "failed"} THEN "resolved"
    ELSE "awaitAll"

\* line 134: Promise.all(clientTokens)
JoinAll(cts) ==
    IF \E i \in DOMAIN cts : cts[i].init = "failed" THEN "rejected"
    ELSE IF \A i \in DOMAIN cts : cts[i].init = "ready" THEN "resolved"
    ELSE "awaitAll"

\* the handles Promise.all resolves with
Handles(cts) == [i \in DOMAIN cts |-> i]

Join(cts, err) ==
    /\ pc' = IF pc = "awaitAll" THEN JoinAll(cts) ELSE pc
    /\ error' = IF pc = "awaitAll" /\ JoinAll(cts) = "rejected" THEN err ELSE error
    /\ result' = IF pc = "awaitAll" /\ JoinAll(cts) = "resolved"
                 THEN Handles(cts) ELSE result

TypeOK ==
    /\ pc \in {"start", "awaitNetwork", "awaitAddress", "awaitAll", "resolved", "rejected"}
    /\ provider \in BOOLEAN
    /\ customPriceCalculation \in {"function", Undefined}

\* the state at the call of getClientTokens(signer, registry, customPriceCalculation)
Start(registry) ==
    /\ networks = registry
    /\ provider \in BOOLEAN
    /\ providerChainId \in ProviderChainIds
    /\ erc20Decimals \in DecimalsOnChain
    /\ customPriceCalculation \in {"function", Undefined}
    /\ pc = "start"
    /\ error = ""
    /\ chainId = None
    /\ clientTokens = << >>
    /\ calls = << >>
    /\ reads = << >>
    /\ customArgs = << >>
    /\ requests = [getNetwork |-> 0, lookup |-> 0, getAddress |-> 0]
    /\ result = << >>
    /\ transfers = << >>

Init == Start(NETWORKS)

\* lines 114-118: the call, up to the first await
GetClientTokens ==
    /\ pc = "start"
    /\ IF ~HasProvider
       THEN /\ pc' = "rejected"
            /\ error' = "Signer must have a provider"
            /\ UNCHANGED requests
       ELSE /\ pc' = "awaitNetwork"
            /\ requests' = [requests EXCEPT !.getNetwork = @ + 1]
            /\ UNCHANGED error
    /\ UNCHANGED <<args, chainId, clientTokens, calls, reads, customArgs, result,
                   transfers>>

\* lines 118-121: the chain id arrives
NetworkResolved ==
    /\ pc = "awaitNetwork"
    /\ chainId' = Some(providerChainId)
    /\ IF ~NetworkSupported(providerChainId)
       THEN /\ pc' = "rejected"
            /\ error' = "Network not supported"
            /\ requests' = [requests EXCEPT !.lookup = @ + 1]
       ELSE /\ pc' = "awaitAddress"
            /\ requests' = [requests EXCEPT !.lookup = @ + 1, !.getAddress = @ + 1]
            /\ UNCHANGED error
    /\ UNCHANGED <<args, clientTokens, calls, reads, customArgs, result, transfers>>

NetworkRejected ==
    /\ pc = "awaitNetwork"
    /\ pc' = "rejected"
    /\ error' = "getNetwork rejected"
    /\ UNCHANGED <<args, chainId, clientTokens, calls, reads, customArgs, requests,
                   result, transfers>>

\* lines 121-134: the address arrives; every token is constructed and its
\* initialize() runs up to the decimals() request
AddressResolved ==
    /\ pc = "awaitAddress"
    /\ LET tokens == networks[chainId[1]].tokens
           cts == [i \in Mapped(tokens) |-> ClientToken(tokens[i])]
       IN /\ clientTokens' = cts
          /\ calls' = [i \in DOMAIN cts |-> << >>]
          /\ reads' = [i \in DOMAIN cts |-> [NoReads EXCEPT !.decimals = 1]]
          /\ customArgs' = [i \in DOMAIN cts |-> {}]
          /\ pc' = JoinAll(cts)
          /\ result' = IF JoinAll(cts) = "resolved" THEN Handles(cts) ELSE result
    /\ UNCHANGED <<args, error, chainId, requests, transfers>>

AddressRejected ==
    /\ pc = "awaitAddress"
    /\ pc' = "rejected"
    /\ error' = "getAddress rejected"
    /\ UNCHANGED <<args, chainId, clientTokens, calls, reads, customArgs, requests,
                   result, transfers>>

\* initialize(), lines 85-86, and update(), lines 73-78 up to the await
DecimalsResolved(i) ==
    /\ clientTokens[i].init = "decimals"
    /\ LET d == erc20Decimals
           call == NewCall(clientTokens[i])
           ct == [clientTokens[i] EXCEPT !.decimals = Some(d), !.init = InitOf(call)]
           cts == [clientTokens EXCEPT ![i] = ct]
       IN /\ clientTokens' = cts
          /\ calls' = [calls EXCEPT ![i] = <<call>>]
          /\ reads' = [reads EXCEPT ![i] = IssuePrice(ct, IssueBalance(@))]
          /\ customArgs' = [customArgs EXCEPT ![i] = IssueCustomArgs(ct, @)]
          /\ Join(cts, "TypeError: customPriceCalculation is not a function")
    /\ UNCHANGED <<args, chainId, requests, transfers>>

DecimalsRejected(i) ==
    /\ clientTokens[i].init = "decimals"
    /\ LET cts == [clientTokens EXCEPT ![i].init = "failed"]
       IN /\ clientTokens' = cts
          /\ Join(cts, "decimals rejected")
    /\ UNCHANGED <<args, chainId, calls, reads, customArgs, requests, transfers>>

\* One read of update() call c of token i has settled: ct and call are the
\* token and the call after it.  Line 79 runs when Promise.all resolves
\* (getBalance() and getPrice() are called again; nothing is done with the
\* two promises), then update() returns and, for the call of initialize(),
\* create() returns the token to Promise.all.
Settled(i, c, ct, call, err) ==
    LET ct2 == IF c = 1 THEN [ct EXCEPT !.init = InitOf(call)] ELSE ct
        cts == [clientTokens EXCEPT ![i] = ct2]
    IN /\ clientTokens' = cts
       /\ calls' = [calls EXCEPT ![i][c] = call]
       /\ IF CallStatus(call) = "resolved"
          THEN /\ reads' = [reads EXCEPT ![i] = IssuePrice(ct, IssueBalance(@))]
               /\ customArgs' = [customArgs EXCEPT ![i] = IssueCustomArgs(ct, @)]
          ELSE UNCHANGED <<reads, customArgs>>
       /\ Join(cts, err)

\* line 76: newBalance.then((balance) => (this.balance = balance))
BalanceResolved(i, c) ==
    /\ calls[i][c].bal = "pending"
    /\ \E raw \in BalancesOnChain :
        Settled(i, c,
                [clientTokens[i] EXCEPT
                    !.balance = Some(getBalance(raw, clientTokens[i].decimals[1])),
                    !.balanceBy = c],
                [calls[i][c] EXCEPT !.bal = "ok"], "")
    /\ UNCHANGED <<args, chainId, requests, transfers>>

BalanceRejected(i, c) ==
    /\ calls[i][c].bal = "pending"
    /\ Settled(i, c, clientTokens[i], [calls[i][c] EXCEPT !.bal = "fail"],
               "balanceOf rejected")
    /\ UNCHANGED <<args, chainId, requests, transfers>>

\* line 77: newPrice.then((price) => (this.price = price))
PriceResolved(i, c) ==
    /\ calls[i][c].price = "pending"
    /\ \E answer \in OracleAnswers, v \in CustomPrices :
        LET price == IF PriceSource(clientTokens[i]) = "oracle"
                     THEN getPriceViaOracle(answer) ELSE customPrice(v)
        IN Settled(i, c,
                   [clientTokens[i] EXCEPT !.price = Some(price), !.priceBy = c,
                                           !.answer = IF PriceSource(clientTokens[i]) = "oracle"
                                                      THEN Some(answer) ELSE @],
                   [calls[i][c] EXCEPT !.price = "ok"], "")
    /\ UNCHANGED <<args, chainId, requests, transfers>>

PriceRejected(i, c) ==
    /\ calls[i][c].price = "pending"
    /\ Settled(i, c, clientTokens[i], [calls[i][c] EXCEPT !.price = "fail"],
               "price read rejected")
    /\ UNCHANGED <<args, chainId, requests, transfers>>

Activation ==
    \/ GetClientTokens
    \/ NetworkResolved
    \/ NetworkRejected
    \/ AddressResolved
    \/ AddressRejected
    \/ \E i \in DOMAIN clientTokens : DecimalsResolved(i)
    \/ \E i \in DOMAIN clientTokens : DecimalsRejected(i)
    \/ \E i \in DOMAIN clientTokens : \E c \in DOMAIN calls[i] : BalanceResolved(i, c)
    \/ \E i \in DOMAIN clientTokens : \E c \in DOMAIN calls[i] : BalanceRejected(i, c)
    \/ \E i \in DOMAIN clientTokens : \E c \in DOMAIN calls[i] : PriceResolved(i, c)
    \/ \E i \in DOMAIN clientTokens : \E c \in DOMAIN calls[i] : PriceRejected(i, c)

Next == Activation

Spec == Init /\ [][Next]_vars

----------------------------------------------------------------------------
(* The caller uses a returned handle *)

InitSingle == Start(SINGLE_TOKEN_NETWORKS)

\* update(), lines 73-78 up to the await, called by the caller
CallUpdate(i) ==
    /\ pc = "resolved"
    /\ Len(calls[i]) < 1 + MaxUpdates
    /\ calls' = [calls EXCEPT ![i] = Append(@, NewCall(clientTokens[i]))]
    /\ reads' = [reads EXCEPT ![i] = IssuePrice(clientTokens[i], IssueBalance(@))]
    /\ customArgs' = [customArgs EXCEPT ![i] = IssueCustomArgs(clientTokens[i], @)]
    /\ UNCHANGED <<args, pc, error, chainId, clientTokens, requests, result, transfers>>

NextUpdate ==
    \/ Activation
    \/ \E i \in DOMAIN result : CallUpdate(result[i])

SpecUpdate == InitSingle /\ [][NextUpdate]_vars

\* transfer(to, amount), line 70, and transfer of src/lib/tokens.ts, lines 27-30
\* up to the await: the amount is the number the literal n / 10^k denotes
CallTransfer(i) ==
    /\ pc = "resolved"
    /\ Len(transfers) < MaxTransfers
    /\ \E to \in ToAddresses, n \in 1 .. MaxAmountDigits, k \in 0 .. MaxAmountScale :
        transfers' = Append(transfers,
            [token |-> i, to |-> to, n |-> n, k |-> k,
             formattedAmount |-> formattedAmount(NumberLiteral(n, k),
                                                 clientTokens[i].decimals[1]),
             state |-> "submitted"])
    /\ UNCHANGED <<args, pc, error, chainId, clientTokens, calls, reads, customArgs,
                   requests, result>>

\* lines 28-31: contract.transfer settles; transfer() returns the transaction
\* response and does not call wait() on it
TransferResolved(j) ==
    /\ transfers[j].state = "submitted"
    /\ transfers' = [transfers EXCEPT ![j].state = "returned response"]
    /\ UNCHANGED <<args, pc, error, chainId, clientTokens, calls, reads, customArgs,
                   requests, result>>

TransferRejected(j) ==
    /\ transfers[j].state = "submitted"
    /\ transfers' = [transfers EXCEPT ![j].state = "rejected"]
    /\ UNCHANGED <<args, pc, error, chainId, clientTokens, calls, reads, customArgs,
                   requests, result>>

NextTransfer ==
    \/ Activation
    \/ \E i \in DOMAIN result : CallTransfer(result[i])
    \/ \E j \in DOMAIN transfers : TransferResolved(j)
    \/ \E j \in DOMAIN transfers : TransferRejected(j)

SpecTransfer == InitSingle /\ [][NextTransfer]_vars

----------------------------------------------------------------------------
(* The claims *)

Tokens == DOMAIN clientTokens
RegistryTokens == networks[chainId[1]].tokens
PriceReads(r) == r.latestRoundData + r.custom

\* C1: update() on an activated token (a returned handle: the calls after
\* the one of initialize()) commits the new balance and the new price only
\* after both reads have succeeded: if either read of the call has failed,
\* the call has assigned neither cached field.  (Fails: each read assigns its
\* field in its own then-callback, lines 76-77.)
C1_NoCommitWhenAReadFails ==
    \A i \in Tokens : \A c \in DOMAIN calls[i] :
        (/\ c > 1
         /\ calls[i][c].bal = "fail" \/ calls[i][c].price = "fail")
            => (clientTokens[i].balanceBy # c /\ clientTokens[i].priceBy # c)

\* C2: no ClientToken exists that has neither an oracle contract nor a price
\* function: constructing one fails.  (Fails: the constructor, lines 32-50,
\* checks nothing; getPrice() throws later.)
C2_NoTokenWithoutPriceSource ==
    \A i \in Tokens :
        clientTokens[i].oracleContract # Undefined \/ customPriceCalculation # Undefined

\* C3: when the provider resolves to a chain id that is not a key of the
\* registry, the call is rejected with 'Network not supported', returns no
\* handles, constructs no token and issues no contract read.
C3_UnsupportedNetwork ==
    (chainId # None /\ chainId[1] \notin DOMAIN networks)
        => /\ pc = "rejected"
           /\ error = "Network not supported"
           /\ result = << >>
           /\ clientTokens = << >>
           /\ reads = << >>
           /\ requests.getAddress = 0

C3_Witness ==
    /\ chainId = Some(1)
    /\ pc = "rejected"
    /\ requests.lookup = 1

\* C4: when the signer has no provider, the call is rejected with the
\* no-provider error before the chain id is requested, before the registry is
\* consulted and before any token is constructed.
C4_NoProvider ==
    (~provider /\ pc # "start")
        => /\ pc = "rejected"
           /\ error = "Signer must have a provider"
           /\ requests = [getNetwork |-> 0, lookup |-> 0, getAddress |-> 0]
           /\ chainId = None
           /\ clientTokens = << >>
           /\ result = << >>

C4_Witness ==
    /\ ~provider
    /\ pc = "rejected"
    /\ error = "Signer must have a provider"

\* C5: when the call resolves, it returns exactly one handle per token
\* descriptor of the network, in the order of the network's token list, and
\* every returned handle holds its decimals, a balance and a price.
C5_ResolvedHandles ==
    pc = "resolved"
        => /\ Len(result) = Len(RegistryTokens)
           /\ \A i \in 1 .. Len(RegistryTokens) :
                LET ct == clientTokens[result[i]]
                IN /\ ct.token = RegistryTokens[i]
                   /\ ct.decimals # None
                   /\ ct.balance # None
                   /\ ct.price # None

C5_Witness ==
    /\ pc = "resolved"
    /\ chainId = Some(43114)
    /\ Len(result) = 3
    /\ clientTokens[result[3]].token = MIM
    /\ clientTokens[result[3]].price = Some(customPrice(100))

\* C6: once the tokens are mapped, the initialization of every token has been
\* started, whatever the outcome of the others, and the call is rejected
\* (returning no handles) if and only if the initialization of at least one
\* token has failed.
C6_JoinAllOrFail ==
    clientTokens # << >>
        => /\ Len(clientTokens) = Len(RegistryTokens)
           /\ \A i \in Tokens : reads[i].decimals = 1
           /\ (pc = "rejected" <=> \E i \in Tokens : clientTokens[i].init = "failed")
           /\ (pc = "rejected" => result = << >>)

\* one token has failed, the call is rejected, and another token has gone on
\* to complete its initialization
C6_Witness ==
    /\ pc = "rejected"
    /\ \E i, j \in Tokens :
        /\ clientTokens[i].init = "failed"
        /\ clientTokens[i].decimals = None
        /\ clientTokens[j].init = "ready"

\* C7: the cached balance and the cached price of a token were assigned by
\* one and the same update() call (stated for the states in which both are
\* set and no update() call on the token is pending, so that a call that is
\* half-way does not count).  (Fails, because of C1: a call whose price read
\* fails still assigns the balance.)
C7_BalanceAndPriceOfOneCall ==
    \A i \in Tokens :
        (/\ clientTokens[i].balance # None
         /\ clientTokens[i].price # None
         /\ \A c \in DOMAIN calls[i] :
               calls[i][c].bal # "pending" /\ calls[i][c].price # "pending")
            => clientTokens[i].balanceBy = clientTokens[i].priceBy

\* C8: getPrice() selects its source by the token descriptor alone: for a
\* token with an oracle address the price is the oracle's answer divided by
\* 10^8 and the price function is never called; for a token without one the
\* price function is called with {chainId, token} and no oracle is read.
C8_PriceSource ==
    \A i \in Tokens :
        LET ct == clientTokens[i]
        IN IF RegistryTokens[i].oracleAddress # Undefined
           THEN /\ reads[i].custom = 0
                /\ customArgs[i] = {}
                /\ ct.price # None =>
                      /\ ct.answer # None
                      /\ ct.price[1] = [n |-> ct.answer[1], e |-> 8]
           ELSE /\ reads[i].latestRoundData = 0
                /\ ct.answer = None
                /\ customArgs[i] \subseteq
                      {[chainId |-> providerChainId, token |-> RegistryTokens[i]]}
                /\ reads[i].custom > 0 => customArgs[i] # {}

\* in one activation both branches have been taken: a token with an oracle
\* holds the price of the oracle's answer, and the token without one holds
\* the price function's, which was called again by line 79
C8_Witness ==
    /\ \E i \in Tokens :
        /\ clientTokens[i].token.oracleAddress # Undefined
        /\ clientTokens[i].price = Some([n |-> 99990000, e |-> 8])
        /\ reads[i].latestRoundData = 2
    /\ \E i \in Tokens :
        /\ clientTokens[i].token.oracleAddress = Undefined
        /\ clientTokens[i].price = Some(customPrice(100))
        /\ reads[i].custom = 2
        /\ customArgs[i] = {[chainId |-> 43114, token |-> MIM]}

\* C9: transfer(to, amount) submits the integer amount * 10^decimals, with
\* the decimals cached at initialization: for an amount n / 10^k with
\* k <= decimals, the integer n * 10^(decimals - k).  (Fails: line 27
\* multiplies in binary floating point.)
C9_TransferSubmitsScaledInteger ==
    \A j \in DOMAIN transfers :
        transfers[j].k <= erc20Decimals
            => IsInteger(transfers[j].formattedAmount,
                         TimesPow10(Bits(transfers[j].n), erc20Decimals - transfers[j].k))

\* C10: initialization issues exactly one decimals read and, only after it
\* has completed, exactly one balance read and exactly one price read, and no
\* further read.  (Fails: line 79 calls getBalance() and getPrice() again.)
C10_InitializationReads ==
    \A i \in Tokens :
        /\ reads[i].decimals = 1
        /\ reads[i].balanceOf <= 1
        /\ PriceReads(reads[i]) <= 1
        /\ reads[i].balanceOf > 0 => clientTokens[i].decimals # None
        /\ clientTokens[i].init = "ready"
              => reads[i].balanceOf = 1 /\ PriceReads(reads[i]) = 1

=============================================================================
